---- MODULE Spec2Model ----
(***************************************************************************)
(* A model of xml_escpos: the style stack, the two entity serializers, the *)
(* recursive element walker print_elem and the driver receipt().           *)
(*                                                                         *)
(* Text is a sequence of one-character strings.  xml.etree gives None for  *)
(* an absent text or tail; every use in the source either tests the text's *)
(* truth (None and '' alike) or fails on both, so absent text is <<>>.     *)
(* A Python float is a record [num, den] holding an exact fraction.        *)
(***************************************************************************)
EXTENDS Integers, Sequences, FiniteSets, TLC

VARIABLES
    pc,             \* receipt(): "start", "walk", "final", "done", "error"; "api" in the sink specifications
    printer,        \* the class of the printer object handed to receipt()
    root,           \* the parsed root element
    stylestack,     \* StyleStack.stack
    stack,          \* XmlSerializer.stack, the block/inline mode stack
    out,            \* the calls the printer object has accepted, in order
    slip_sheet_mode,\* printer.slip_sheet_mode
    lines,          \* the live XmlLineSerializer objects, innermost last
    calls,          \* the active print_elem calls, innermost last
    err,            \* the exception that ended the render, "none" while there is none
    budget,         \* elements the document may still hold
    pushes,         \* StyleStack.push calls made by print_elem
    pops,           \* StyleStack.pop calls made by print_elem
    ncut,           \* cut and partialcut elements walked
    last,           \* the element print_elem was last called on (the call last made, in the sink specifications)
    ncalls          \* sink-interface calls made (sink specifications)

vars == <<pc, printer, root, stylestack, stack, out, slip_sheet_mode, lines,
          calls, err, budget, pushes, pops, ncut, last, ncalls>>

----------------------------------------------------------------------------
(* Bounds of the model *)

\* elements of a document, the root included
MaxElems == 3
\* calls made on an XmlSerializer in SpecSer
MaxSerCalls == 4
\* calls made on an XmlLineSerializer in SpecLine
MaxLineCalls == 3

----------------------------------------------------------------------------
(* Text helpers *)

Max(a, b) == IF a >= b THEN a ELSE b

Min(a, b) == IF a <= b THEN a ELSE b

\* txt[:n] for n >= 0
Take(txt, n) == SubSeq(txt, 1, Min(n, Len(txt)))

\* c * n for a one-character string c: empty when n <= 0
Repeat(c, n) == [i \in 1..Max(0, n) |-> c]

\* \s of the re module, over the characters the inputs use
IsSpace(c) == c \in {" ", "\n", "\t"}

RECURSIVE lstrip(_)
lstrip(txt) ==
    IF txt = <<>> THEN <<>>
    ELSE IF IsSpace(Head(txt)) THEN lstrip(Tail(txt)) ELSE txt

RECURSIVE rstrip(_)
rstrip(txt) ==
    IF txt = <<>> THEN <<>>
    ELSE IF IsSpace(txt[Len(txt)]) THEN rstrip(SubSeq(txt, 1, Len(txt) - 1)) ELSE txt

\* str.strip()
strip(txt) == rstrip(lstrip(txt))

\* re.sub('\s+', ' ', txt)
RECURSIVE collapse(_)
collapse(txt) ==
    IF txt = <<>> THEN <<>>
    ELSE IF IsSpace(Head(txt))
         THEN <<" ">> \o collapse(lstrip(txt))
         ELSE <<Head(txt)>> \o collapse(Tail(txt))

\* strclean(): strip, then collapse whitespace runs
strclean(txt) == collapse(strip(txt))

----------------------------------------------------------------------------
(* Python numbers *)

Float(n, d) == [num |-> n, den |-> d]

\* int(x) of a float: truncation toward zero
TruncInt(x) ==
    IF x.num >= 0 THEN x.num \div x.den ELSE -((-x.num) \div x.den)

\* float(s) for the attribute strings of the inputs; any other string raises ValueError
FloatLit ==
    ( "0"    :> Float(0, 1)  @@ "1"    :> Float(1, 1)  @@ "2"   :> Float(2, 1)
   @@ "3"    :> Float(3, 1)  @@ "6"    :> Float(6, 1)  @@ "10"  :> Float(10, 1)
   @@ "6.5"  :> Float(13, 2) @@ "0.25" :> Float(1, 4)  @@ "0.5" :> Float(1, 2)
   @@ "0.75" :> Float(3, 4)  @@ "1.5"  :> Float(3, 2)  @@ "-0.5" :> Float(-1, 2)
   @@ "-1"   :> Float(-1, 1) )

IsFloatLit(s) == s \in DOMAIN FloatLit

----------------------------------------------------------------------------
(* StyleStack *)

\* StyleStack.defaults, as push() stores them: each value already has its type
defaults ==
    ( "align" :> "left" @@ "underline" :> "off" @@ "bold" :> "off"
   @@ "size" :> "normal" @@ "font" :> "a" @@ "width" :> 48 @@ "indent" :> 0
   @@ "tabwidth" :> 2 @@ "bullet" :> " - " @@ "line-ratio" :> Float(1, 2)
   @@ "color" :> "black" @@ "value-decimals" :> 2 @@ "value-symbol" :> ""
   @@ "value-symbol-position" :> "after" @@ "value-autoint" :> "off"
   @@ "value-decimals-separator" :> "." @@ "value-thousands-separator" :> ","
   @@ "value-width" :> 0 )

\* StyleStack.types
types ==
    ( "width" :> "int" @@ "indent" :> "int" @@ "tabwidth" :> "int"
   @@ "line-ratio" :> "float" @@ "value-decimals" :> "int" @@ "value-width" :> "int" )

escpos_keys == {"align", "underline", "bold", "font", "size", "color"}

\* StyleStack.get over a stack value: the topmost frame that defines the style
RECURSIVE get_from(_, _, _)
get_from(stk, level, style) ==
    IF level < 1 THEN "None"
    ELSE IF style \in DOMAIN stk[level] THEN stk[level][style]
    ELSE get_from(stk, level - 1, style)

\* mutant of StyleStack_get: the frames between the top and the root are skipped
StyleStack_get_top_or_root(stk, style) ==
    IF style \in DOMAIN stk[Len(stk)] THEN stk[Len(stk)][style]
    ELSE IF style \in DOMAIN stk[1] THEN stk[1][style]
    ELSE "None"

StyleStack_get(stk, style) == get_from(stk, Len(stk), style)

\* enforce_type raises ValueError: a numeric attribute whose value float() rejects
enforce_fails(attr, val) ==
    attr \in DOMAIN types /\ ~IsFloatLit(val)

enforce_type(attr, val) ==
    IF attr \notin DOMAIN types THEN val
    ELSE IF types[attr] = "int" THEN TruncInt(FloatLit[val])
    ELSE IF types[attr] = "float" THEN FloatLit[val]
    ELSE val

\* StyleStack.push() as print_elem calls it: a new empty frame
StyleStack_push(stk) == Append(stk, <<>>)

\* mutant of StyleStack_set: the values are written to the root frame
StyleStack_set_root(stk, style) ==
    [stk EXCEPT ![1] =
        [a \in (DOMAIN stk[1]) \cup (DOMAIN style) |->
            IF a \in DOMAIN style THEN enforce_type(a, style[a])
            ELSE stk[1][a]]]

\* StyleStack.set: overrides the values of the top frame
StyleStack_set(stk, style) ==
    [stk EXCEPT ![Len(stk)] =
        [a \in (DOMAIN stk[Len(stk)]) \cup (DOMAIN style) |->
            IF a \in DOMAIN style THEN enforce_type(a, style[a])
            ELSE stk[Len(stk)][a]]]

set_fails(style) == \E a \in DOMAIN style : enforce_fails(a, style[a])

\* mutant of StyleStack_pop: the guard keeps two frames instead of one
StyleStack_pop_keeps_two(stk) ==
    IF Len(stk) > 2 THEN SubSeq(stk, 1, Len(stk) - 1) ELSE stk

StyleStack_pop(stk) ==
    IF Len(stk) > 1 THEN SubSeq(stk, 1, Len(stk) - 1) ELSE stk

get_styles(stk) == [k \in escpos_keys |-> StyleStack_get(stk, k)]

----------------------------------------------------------------------------
(* The printer object *)

\* The classes of printer object: DefaultXMLPrinter, and an object that has
\* every method receipt() calls (the duck-typed printer argument).
Printers == {"DefaultXMLPrinter", "AnyPrinter"}

\* The calls DefaultXMLPrinter has a method for, with the arguments it takes:
\* cut(self) takes no mode; print_base64_image and cashdraw are not defined.
DefaultXMLPrinter_accepts(call) ==
    \/ call.op \in {"set_sheet_slip_mode", "set_sheet_roll_mode", "apply_style",
                    "text", "barcode"}
    \/ call.op = "cut" /\ call.mode = "default"

accepts(kind, call) ==
    IF kind = "DefaultXMLPrinter" THEN DefaultXMLPrinter_accepts(call) ELSE TRUE

\* The exception Python raises for a call the object does not accept
call_error(call) ==
    IF call.op = "cut" THEN "TypeError" ELSE "AttributeError"

\* A machine state M is [stylestack, stack, out, lines, err]; once err is set
\* the exception propagates and nothing more is done.
printer_call(M, call) ==
    IF M.err # "none" THEN M
    ELSE IF accepts(printer, call) THEN [M EXCEPT !.out = Append(@, call)]
    ELSE [M EXCEPT !.err = call_error(call)]

TextCall(txt) == [op |-> "text", text |-> txt]

Newline == TextCall(<<"\n">>)

----------------------------------------------------------------------------
(* XmlSerializer: the direct-output sink *)

XmlSerializer_style(M) ==
    printer_call(M, [op |-> "apply_style", styles |-> get_styles(M.stylestack)])

\* self.stack.append(mode)
push_mode(M, mode) ==
    IF M.err # "none" THEN M ELSE [M EXCEPT !.stack = Append(@, mode)]

\* mutant of pop_mode: the last entry is removed whatever the length
pop_mode_unguarded(M) ==
    IF M.err # "none" THEN M
    ELSE [M EXCEPT !.stack = SubSeq(@, 1, Len(@) - 1)]

\* if len(self.stack) > 1: self.stack = self.stack[:-1]
pop_mode(M) ==
    IF M.err # "none" THEN M
    ELSE IF Len(M.stack) > 1 THEN [M EXCEPT !.stack = SubSeq(@, 1, Len(@) - 1)]
    ELSE M

XmlSerializer_start_inline(M, styled) ==
    IF styled THEN XmlSerializer_style(push_mode(M, "inline"))
    ELSE push_mode(M, "inline")

XmlSerializer_start_block(M, styled) ==
    IF styled THEN XmlSerializer_style(push_mode(M, "block"))
    ELSE push_mode(M, "block")

\* mutant of XmlSerializer_end_entity: the mode is popped first, and the line
\* terminator depends on the mode that is then on top
XmlSerializer_end_entity_pop_first(M) ==
    IF M.err # "none" THEN M
    ELSE IF pop_mode(M).stack[Len(pop_mode(M).stack)] = "block"
         THEN printer_call(pop_mode(M), Newline)
         ELSE pop_mode(M)

XmlSerializer_end_entity(M) ==
    IF M.err # "none" THEN M
    ELSE IF M.stack[Len(M.stack)] = "block" THEN pop_mode(printer_call(M, Newline))
    ELSE pop_mode(M)

XmlSerializer_pre(M, txt) ==
    IF M.err # "none" THEN M
    ELSE IF txt # <<>> THEN printer_call(M, TextCall(txt)) ELSE M

XmlSerializer_text(M, txt) ==
    IF M.err # "none" THEN M
    ELSE IF txt # <<>> /\ strclean(txt) # <<>>
         THEN printer_call(M, TextCall(strclean(txt)))
         ELSE M

XmlSerializer_linebreak(M) ==
    IF M.err # "none" THEN M ELSE printer_call(M, Newline)

----------------------------------------------------------------------------
(* XmlLineSerializer: the line-composing sink *)

XmlLineSerializer_init(indent, tabwidth, width, ratio) ==
    LET w  == Max(0, width - tabwidth * indent)
        lw == TruncInt(Float(w * ratio.num, ratio.den))
    IN  [ tabwidth |-> tabwidth, indent |-> indent, width |-> w,
          lwidth |-> lw, rwidth |-> Max(0, w - lw),
          clwidth |-> 0, crwidth |-> 0,
          lbuffer |-> <<>>, rbuffer |-> <<>>, left |-> TRUE ]

\* mutant of Line_txt: the text is appended without being cut to the room left
Line_txt_untruncated(L, txt) ==
    IF L.left
    THEN IF L.clwidth < L.lwidth
         THEN [L EXCEPT !.lbuffer = @ \o txt, !.clwidth = @ + Len(txt)]
         ELSE L
    ELSE IF L.crwidth < L.rwidth
         THEN [L EXCEPT !.rbuffer = @ \o txt, !.crwidth = @ + Len(txt)]
         ELSE L

Line_txt(L, txt) ==
    IF L.left
    THEN IF L.clwidth < L.lwidth
         THEN LET t == Take(txt, Max(0, L.lwidth - L.clwidth))
              IN  [L EXCEPT !.lbuffer = @ \o t, !.clwidth = @ + Len(t)]
         ELSE L
    ELSE IF L.crwidth < L.rwidth
         THEN LET t == Take(txt, Max(0, L.rwidth - L.crwidth))
              IN  [L EXCEPT !.rbuffer = @ \o t, !.crwidth = @ + Len(t)]
         ELSE L

Line_start_inline(L) ==
    IF (L.left /\ L.clwidth # 0) \/ (~L.left /\ L.crwidth # 0)
    THEN Line_txt(L, <<" ">>)
    ELSE L

Line_start_block(L) == Line_start_inline(L)

Line_end_entity(L) == L

Line_pre(L, txt) == IF txt # <<>> THEN Line_txt(L, txt) ELSE L

Line_text(L, txt) ==
    IF txt # <<>> /\ strclean(txt) # <<>> THEN Line_txt(L, strclean(txt)) ELSE L

Line_linebreak(L) == L

Line_style(L) == L

\* mutant of Line_start_right: the call switches to the other column
Line_start_right_toggles(L) == [L EXCEPT !.left = ~@]

Line_start_right(L) == [L EXCEPT !.left = FALSE]

\* mutant of Line_get_line: the padding forgets the width the right buffer uses
Line_get_line_pad_left_only(L) ==
    Repeat(" ", Max(0, L.indent) * L.tabwidth)
        \o L.lbuffer
        \o Repeat(" ", L.width - L.clwidth)
        \o L.rbuffer

\* ' ' * self.indent * self.tabwidth + lbuffer + ' ' * (width - clwidth - crwidth) + rbuffer
Line_get_line(L) ==
    Repeat(" ", Max(0, L.indent) * L.tabwidth)
        \o L.lbuffer
        \o Repeat(" ", L.width - L.clwidth - L.crwidth)
        \o L.rbuffer

----------------------------------------------------------------------------
(* format_value *)

Digits == <<"0", "1", "2", "3", "4", "5", "6", "7", "8", "9">>

IsDigit(c) == \E i \in 1..10 : Digits[i] = c

DigitVal(c) == (CHOOSE i \in 1..10 : Digits[i] = c) - 1

RECURSIVE Pow10(_)
Pow10(n) == IF n <= 0 THEN 1 ELSE 10 * Pow10(n - 1)

\* the value of a digit string, most significant digit first
RECURSIVE DigitsVal(_)
DigitsVal(ds) ==
    IF ds = <<>> THEN 0
    ELSE 10 * DigitsVal(SubSeq(ds, 1, Len(ds) - 1)) + DigitVal(ds[Len(ds)])

AllDigits(ds) == \A i \in 1..Len(ds) : IsDigit(ds[i])

\* the index of the first "." of txt, 0 when there is none
DotAt(txt) ==
    IF \E i \in 1..Len(txt) : txt[i] = "."
    THEN CHOOSE i \in 1..Len(txt) : txt[i] = "." /\ \A j \in 1..(i - 1) : txt[j] # "."
    ELSE 0

\* float(text) for a text without its sign: digits, an optional point, digits
\* (the forms the inputs use); ok is FALSE where float() raises ValueError
float_parts(neg, ip, fp) ==
    IF AllDigits(ip) /\ AllDigits(fp) /\ Len(ip) + Len(fp) > 0
    THEN [ok |-> TRUE, neg |-> neg, den |-> Pow10(Len(fp)),
          num |-> (IF neg THEN -1 ELSE 1) * (DigitsVal(ip) * Pow10(Len(fp)) + DigitsVal(fp))]
    ELSE [ok |-> FALSE, neg |-> neg, den |-> 1, num |-> 0]

float_unsigned(neg, body, d) ==
    float_parts(neg,
                IF d = 0 THEN body ELSE SubSeq(body, 1, d - 1),
                IF d = 0 THEN <<>> ELSE SubSeq(body, d + 1, Len(body)))

float_stripped(s) ==
    IF s # <<>> /\ s[1] \in {"-", "+"}
    THEN float_unsigned(s[1] = "-", Tail(s), DotAt(Tail(s)))
    ELSE float_unsigned(FALSE, s, DotAt(s))

\* float(text): an exact fraction, with the sign the text carries
float_of(txt) == float_stripped(strip(txt))

float_ok(txt) == float_of(txt).ok

\* the decimal digits of n >= 0
RECURSIVE IntDigits(_)
IntDigits(n) ==
    IF n < 10 THEN <<Digits[n + 1]>>
    ELSE IntDigits(n \div 10) \o <<Digits[(n % 10) + 1]>>

\* the "," option of the format mini-language: groups of three from the right
RECURSIVE Group3(_)
Group3(ds) ==
    IF Len(ds) <= 3 THEN ds
    ELSE Group3(SubSeq(ds, 1, Len(ds) - 3)) \o <<",">> \o SubSeq(ds, Len(ds) - 2, Len(ds))

\* a / den rounded to an integer, ties to even, for a >= 0 (the value is exact in binary)
round_half_even(a, den) ==
    IF 2 * (a % den) > den THEN (a \div den) + 1
    ELSE IF 2 * (a % den) = den /\ (a \div den) % 2 = 1 THEN (a \div den) + 1
    ELSE a \div den

\* |x| * 10^decimals rounded to an integer
RoundScaled(x, decimals) ==
    round_half_even((IF x.num < 0 THEN -x.num ELSE x.num) * Pow10(decimals), x.den)

\* s right-justified in width characters
rjust(s, width) == Repeat(" ", width - Len(s)) \o s

\* the fraction digits of q, which is scaled by 10^decimals
frac_digits(fd, decimals) == Repeat("0", decimals - Len(fd)) \o fd

\* the sign, integer part and fraction of the scaled integer q
format_scaled(neg, q, decimals, grouped) ==
    (IF neg THEN <<"-">> ELSE <<>>)
        \o (IF grouped THEN Group3(IntDigits(q \div Pow10(decimals)))
                       ELSE IntDigits(q \div Pow10(decimals)))
        \o (IF decimals > 0
            THEN <<".">> \o frac_digits(IntDigits(q % Pow10(decimals)), decimals)
            ELSE <<>>)

\* "{:<width>,.<decimals>f}".format(x), or without the "," when grouped is FALSE
format_f(x, width, decimals, grouped) ==
    rjust(format_scaled(x.neg, RoundScaled(x, decimals), decimals, grouped), width)

IsPrefix(p, txt) == Len(p) <= Len(txt) /\ SubSeq(txt, 1, Len(p)) = p

\* txt.replace(old, new) for a non-empty old
RECURSIVE replace(_, _, _)
replace(txt, old, new) ==
    IF txt = <<>> THEN <<>>
    ELSE IF IsPrefix(old, txt)
         THEN new \o replace(SubSeq(txt, Len(old) + 1, Len(txt)), old, new)
         ELSE <<Head(txt)>> \o replace(Tail(txt), old, new)

\* the characters of the strings used as separators and symbols
chars ==
    ( "" :> <<>> @@ "." :> <<".">> @@ "," :> <<",">> @@ " " :> <<" ">>
   @@ "$" :> <<"$">> @@ "DOT" :> <<"D", "O", "T">> )

COMMA == <<"C", "O", "M", "M", "A">>

DOT == <<"D", "O", "T">>

\* mutant of substitute: the separators are replaced one after the other,
\* without the placeholders
substitute_sequential(ret, thousands_separator, decimals_separator) ==
    replace(replace(ret, <<",">>, chars[thousands_separator]),
            <<".">>, chars[decimals_separator])

\* lines 276-279: the four replacements, in the order of the source
substitute(ret, thousands_separator, decimals_separator) ==
    replace(
        replace(
            replace(replace(ret, <<",">>, COMMA), <<".">>, DOT),
            COMMA, chars[thousands_separator]),
        DOT, chars[decimals_separator])

\* lines 281-285
add_symbol(ret, symbol, position) ==
    IF symbol # ""
    THEN IF position = "after" THEN ret \o chars[symbol] ELSE chars[symbol] \o ret
    ELSE ret

\* lines 265-266
autoint_decimals(x, decimals, autoint) ==
    IF autoint /\ x.num % x.den = 0 THEN 0 ELSE decimals

\* format_value for the float x of the value
format_float(x, decimals, width, decimals_separator, thousands_separator, autoint, symbol, position) ==
    add_symbol(
        substitute(
            format_f(x, Max(0, width),
                     autoint_decimals(x, Max(0, decimals), autoint),
                     thousands_separator # ""),
            thousands_separator, decimals_separator),
        symbol, position)

\* format_value; value is the element's text and float_ok(value) holds
format_value(value, decimals, width, decimals_separator, thousands_separator, autoint, symbol, position) ==
    format_float(float_of(value), decimals, width, decimals_separator,
                 thousands_separator, autoint, symbol, position)

----------------------------------------------------------------------------
(* The machine state the operators above work on *)

Cur == [stylestack |-> stylestack, stack |-> stack, out |-> out,
        lines |-> lines, err |-> err]

\* The variables take the values of machine state M
Becomes(M) ==
    /\ stylestack' = M.stylestack
    /\ stack' = M.stack
    /\ out' = M.out
    /\ lines' = M.lines
    /\ err' = M.err

NoElem == [tag |-> "", attrib |-> <<>>, text |-> <<>>, nkids |-> 0]

\* a call made on a sink in the sink specifications
SinkCall(op, txt, styled) == [op |-> op, txt |-> txt, styled |-> styled]

\* the call last made, with the state of the sink before it
Made(call, before) ==
    [op |-> call.op, txt |-> call.txt, styled |-> call.styled, before |-> before]

----------------------------------------------------------------------------
(* The serializer argument of print_elem: 0 is the XmlSerializer, k > 0 is  *)
(* the XmlLineSerializer lines[k]                                           *)

start_block(M, ser) ==
    IF M.err # "none" THEN M
    ELSE IF ser = 0 THEN XmlSerializer_start_block(M, TRUE)
    ELSE [M EXCEPT !.lines[ser] = Line_start_block(@)]

start_inline(M, ser) ==
    IF M.err # "none" THEN M
    ELSE IF ser = 0 THEN XmlSerializer_start_inline(M, TRUE)
    ELSE [M EXCEPT !.lines[ser] = Line_start_inline(@)]

end_entity(M, ser) ==
    IF M.err # "none" THEN M
    ELSE IF ser = 0 THEN XmlSerializer_end_entity(M)
    ELSE [M EXCEPT !.lines[ser] = Line_end_entity(@)]

pre(M, ser, txt) ==
    IF M.err # "none" THEN M
    ELSE IF ser = 0 THEN XmlSerializer_pre(M, txt)
    ELSE [M EXCEPT !.lines[ser] = Line_pre(@, txt)]

text(M, ser, txt) ==
    IF M.err # "none" THEN M
    ELSE IF ser = 0 THEN XmlSerializer_text(M, txt)
    ELSE [M EXCEPT !.lines[ser] = Line_text(@, txt)]

linebreak(M, ser) ==
    IF M.err # "none" THEN M
    ELSE IF ser = 0 THEN XmlSerializer_linebreak(M)
    ELSE [M EXCEPT !.lines[ser] = Line_linebreak(@)]

----------------------------------------------------------------------------
(* print_elem *)

BlockTags == {"p", "div", "section", "article", "receipt", "header", "footer",
              "li", "h1", "h2", "h3", "h4", "h5"}

InlineTags == {"span", "em", "b", "left", "right"}

elem_styles ==
    ( "h1" :> ("bold" :> "on" @@ "size" :> "double")
   @@ "h2" :> ("size" :> "double")
   @@ "h3" :> ("bold" :> "on" @@ "size" :> "double-height")
   @@ "h4" :> ("size" :> "double-height")
   @@ "h5" :> ("bold" :> "on")
   @@ "em" :> ("font" :> "b")
   @@ "b"  :> ("bold" :> "on") )

\* print_elem keeps a loop over the children of these elements
HasLoop(e) == e.tag \in BlockTags \cup InlineTags \cup {"line"}

\* sub in txt
Contains(txt, sub) ==
    \E i \in 0..(Len(txt) - Len(sub)) : SubSeq(txt, i + 1, i + Len(sub)) = sub

\* int(s) of an attribute string: of the strings of FloatLit, the ones without
\* a point are the integer literals int() accepts
int_ok(s) == IsFloatLit(s) /\ FloatLit[s].den = 1

\* line 313
push_frame(M) == [M EXCEPT !.stylestack = StyleStack_push(@)]

\* lines 314-315
set_tag_styles(M, e) ==
    IF e.tag \in DOMAIN elem_styles
    THEN [M EXCEPT !.stylestack = StyleStack_set(@, elem_styles[e.tag])]
    ELSE M

\* mutant of set_attrib: attributes that do not coerce are passed over and the
\* styles keep their inherited values
set_attrib_skip_bad(M, e) ==
    IF set_fails(e.attrib) THEN M
    ELSE [M EXCEPT !.stylestack = StyleStack_set(@, e.attrib)]

\* line 316
set_attrib(M, e) ==
    IF set_fails(e.attrib) THEN [M EXCEPT !.err = "ValueError"]
    ELSE [M EXCEPT !.stylestack = StyleStack_set(@, e.attrib)]

\* lines 313-316: the frame of the element, its tag's styles, then its attributes
enter_styles(M, e) == set_attrib(set_tag_styles(push_frame(M), e), e)

\* the width of a line or hr: halved (Python 2 integer division) for double sizes
elem_width(stk) ==
    IF StyleStack_get(stk, "size") \in {"double", "double-width"}
    THEN StyleStack_get(stk, "width") \div 2
    ELSE StyleStack_get(stk, "width")

\* lines 341-350
pre_value(M, ser, e) ==
    IF M.err # "none" THEN M
    ELSE IF ~float_ok(e.text) THEN [M EXCEPT !.err = "ValueError"]
    ELSE pre(M, ser,
             format_value(e.text,
                          StyleStack_get(M.stylestack, "value-decimals"),
                          StyleStack_get(M.stylestack, "value-width"),
                          StyleStack_get(M.stylestack, "value-decimals-separator"),
                          StyleStack_get(M.stylestack, "value-thousands-separator"),
                          StyleStack_get(M.stylestack, "value-autoint") = "on",
                          StyleStack_get(M.stylestack, "value-symbol"),
                          StyleStack_get(M.stylestack, "value-symbol-position")))

print_value(M, ser, e) ==
    end_entity(pre_value(start_inline(M, ser), ser, e), ser)

\* the keyword arguments print_barcode builds
barcode_kwargs(attrib) ==
    [k \in {"align_ct"} \cup ((DOMAIN attrib) \cap {"height", "width", "pos"}) |->
        IF k = "align_ct"
        THEN IF "align_ct" \in DOMAIN attrib THEN attrib["align_ct"] = "on" ELSE FALSE
        ELSE IF k = "pos" THEN attrib[k]
        ELSE TruncInt(FloatLit[attrib[k]])]

\* lines 290-298
call_barcode(M, e) ==
    IF M.err # "none" THEN M
    ELSE IF \E k \in (DOMAIN e.attrib) \cap {"height", "width"} : ~int_ok(e.attrib[k])
    THEN [M EXCEPT !.err = "ValueError"]
    ELSE printer_call(M, [op |-> "barcode", code |-> strclean(e.text),
                          encoding |-> e.attrib["encoding"],
                          kwargs |-> barcode_kwargs(e.attrib)])

print_barcode(M, ser, e) ==
    end_entity(call_barcode(start_block(M, ser), e), ser)

print_pre(M, ser, e) ==
    end_entity(pre(start_block(M, ser), ser, e.text), ser)

print_hr(M, ser, e) ==
    end_entity(text(start_block(M, ser), ser, Repeat("-", elem_width(M.stylestack))), ser)

print_img(M, e) ==
    IF "src" \in DOMAIN e.attrib /\ Contains(e.attrib["src"], <<"d", "a", "t", "a", ":">>)
    THEN printer_call(M, [op |-> "print_base64_image", src |-> e.attrib["src"]])
    ELSE M

\* mutant of print_cashdraw: only the first pin is pulsed
print_cashdraw_once(M) ==
    printer_call(M, [op |-> "cashdraw", pin |-> 2])

print_cashdraw(M) ==
    printer_call(printer_call(M, [op |-> "cashdraw", pin |-> 2]),
                 [op |-> "cashdraw", pin |-> 5])

\* mutant of print_leaf: a tag without a branch has its text written
print_leaf_default_text(M, ser, e) ==
    IF M.err # "none" THEN M
    ELSE IF e.tag = "value" THEN print_value(M, ser, e)
    ELSE IF e.tag = "pre" THEN print_pre(M, ser, e)
    ELSE IF e.tag = "hr" THEN print_hr(M, ser, e)
    ELSE IF e.tag = "br" THEN linebreak(M, ser)
    ELSE IF e.tag = "img" THEN print_img(M, e)
    ELSE IF e.tag = "barcode" /\ "encoding" \in DOMAIN e.attrib THEN print_barcode(M, ser, e)
    ELSE IF e.tag = "cut" THEN printer_call(M, [op |-> "cut", mode |-> "default"])
    ELSE IF e.tag = "partialcut" THEN printer_call(M, [op |-> "cut", mode |-> "part"])
    ELSE IF e.tag = "cashdraw" THEN print_cashdraw(M)
    ELSE text(M, ser, e.text)

\* lines 318-399 for an element without a child loop; M already holds its frame
print_leaf(M, ser, e) ==
    IF M.err # "none" THEN M
    ELSE IF e.tag = "value" THEN print_value(M, ser, e)
    ELSE IF e.tag = "pre" THEN print_pre(M, ser, e)
    ELSE IF e.tag = "hr" THEN print_hr(M, ser, e)
    ELSE IF e.tag = "br" THEN linebreak(M, ser)
    ELSE IF e.tag = "img" THEN print_img(M, e)
    ELSE IF e.tag = "barcode" /\ "encoding" \in DOMAIN e.attrib THEN print_barcode(M, ser, e)
    ELSE IF e.tag = "cut" THEN printer_call(M, [op |-> "cut", mode |-> "default"])
    ELSE IF e.tag = "partialcut" THEN printer_call(M, [op |-> "cut", mode |-> "part"])
    ELSE IF e.tag = "cashdraw" THEN print_cashdraw(M)
    ELSE M

\* the XmlLineSerializer a line element builds (print_elem's indent is always 0)
new_lineserializer(stk) ==
    XmlLineSerializer_init(StyleStack_get(stk, "indent") + 0,
                           StyleStack_get(stk, "tabwidth"),
                           elem_width(stk),
                           StyleStack_get(stk, "line-ratio"))

\* lines 318-321, 329-331, 353-360: what a looping element does before its loop
open_elem(M, ser, e) ==
    IF M.err # "none" THEN M
    ELSE IF e.tag \in BlockTags THEN text(start_block(M, ser), ser, e.text)
    ELSE IF e.tag \in InlineTags THEN text(start_inline(M, ser), ser, e.text)
    ELSE start_block([M EXCEPT !.lines = Append(@, new_lineserializer(M.stylestack))], ser)

\* the line serializer of a line element goes with its print_elem call
drop_line(M) ==
    IF M.err # "none" THEN M ELSE [M EXCEPT !.lines = SubSeq(@, 1, Len(@) - 1)]

\* line 401
pop_frame(M) ==
    IF M.err # "none" THEN M ELSE [M EXCEPT !.stylestack = StyleStack_pop(@)]

\* lines 327, 337, 367-368 and 401: what a looping element does after its loop
close_elem(M, f) ==
    IF f.elem.tag = "line"
    THEN pop_frame(drop_line(
            end_entity(pre(M, f.ser, Line_get_line(M.lines[f.inner])), f.ser)))
    ELSE pop_frame(end_entity(M, f.ser))

\* mutant of print_tail: the inline entity of the tail text is started without
\* a style
print_tail_unstyled(M, ser, txt) ==
    end_entity(text(IF ser = 0 THEN XmlSerializer_start_inline(M, FALSE)
                    ELSE start_inline(M, ser),
                    ser, txt), ser)

\* mutant of print_tail: the tail text is wrapped in a block entity
print_tail_as_block(M, ser, txt) ==
    end_entity(text(start_block(M, ser), ser, txt), ser)

\* lines 324-326 and 334-336: the tail text of a child
print_tail(M, ser, txt) ==
    end_entity(text(start_inline(M, ser), ser, txt), ser)

\* an active print_elem call: its element, its serializer, the line serializer
\* it built (0 when none), the children still to visit, whether the tail of
\* the child just walked is still to be written, and the style stack and the
\* printer calls as they were when the call was made
Frame(e, ser, inner, M) ==
    [elem |-> e, ser |-> ser, inner |-> inner, kids |-> e.nkids, tail |-> FALSE,
     before |-> M.stylestack, sent |-> Len(M.out)]

----------------------------------------------------------------------------
(* The documents: an element is drawn when print_elem first reads it *)

Elem(tag, attrib, txt, nkids) ==
    [tag |-> tag, attrib |-> attrib, text |-> txt, nkids |-> nkids]

NoAttrib == <<>>

DataSrc == <<"d", "a", "t", "a", ":", "x">>

\* elements print_elem walks without a child loop: tag, attributes, text
LeafElems ==
    { Elem("value", NoAttrib, <<"5">>, 0),
      Elem("pre", NoAttrib, <<" ", "c", " ">>, 0),
      Elem("hr", "width" :> "3", <<>>, 0),
      Elem("br", NoAttrib, <<>>, 0),
      Elem("img", "src" :> DataSrc, <<>>, 0),
      Elem("barcode", "encoding" :> "EAN13" @@ "height" :> "10" @@ "align_ct" :> "on",
           <<" ", "1", "2">>, 0),
      Elem("barcode", NoAttrib, <<"1", "2">>, 0),
      Elem("cut", NoAttrib, <<>>, 0),
      Elem("partialcut", NoAttrib, <<>>, 0),
      Elem("cashdraw", NoAttrib, <<>>, 0) }

\* elements with children: looping tags and an unknown tag, with up to b children
LoopElems(b) ==
    { Elem(k[1], k[2], k[3], n) :
        k \in { <<"p", NoAttrib, <<"a", " ", " ", "b">> >>,
                <<"p", "width" :> "x", <<>> >>,
                <<"h1", "align" :> "center", <<>> >>,
                <<"span", "bold" :> "on" @@ "width" :> "6.5", <<"s">> >>,
                <<"line", "line-ratio" :> "0.25" @@ "width" :> "10", <<>> >>,
                <<"line", "size" :> "double" @@ "indent" :> "1", <<>> >>,
                <<"foo", "bold" :> "on", <<"u">> >> },
        n \in 0..b }

Elems(b) == LeafElems \cup LoopElems(b)

\* the children of a line element: left, right, and any other tag
LineKids(b) ==
    { Elem(k[1], NoAttrib, k[2], n) :
        k \in { <<"left", <<"A", "B">> >>, <<"right", <<"Z">> >>, <<"p", <<"a">> >> },
        n \in 0..b }

Tails == { <<>>, <<" ", "t">> }

RootAttribs ==
    { NoAttrib,
      "sheet" :> "slip",
      "sheet" :> "roll" @@ "cut" :> "false",
      "cut" :> "true",
      "cut" :> "yes" @@ "sheet" :> "slip",
      "cut" :> "" @@ "width" :> "6" }

\* the root: a receipt element, or (the tag is not checked) a line element
RootElems ==
    { Elem("receipt", a, <<>>, n) : a \in RootAttribs, n \in 0..(MaxElems - 1) }
        \cup { Elem("line", "line-ratio" :> "0.25" @@ "width" :> "10", <<>>, n) :
                    n \in 0..(MaxElems - 1) }

----------------------------------------------------------------------------
(* receipt() *)

Init ==
    /\ pc = "start"
    /\ printer \in Printers
    /\ root \in RootElems
    /\ stylestack = <<defaults>>
    /\ stack = <<"block">>
    /\ out = <<>>
    /\ slip_sheet_mode = FALSE
    /\ lines = <<>>
    /\ calls = <<>>
    /\ err = "none"
    /\ budget = MaxElems - 1
    /\ pushes = 0
    /\ pops = 0
    /\ ncut = 0
    /\ last = NoElem
    /\ ncalls = 0

Top == calls[Len(calls)]

\* mutant of is_slip: any sheet attribute selects slip mode
is_slip_any_sheet(attrib) == "sheet" \in DOMAIN attrib

\* line 406
is_slip(attrib) == "sheet" \in DOMAIN attrib /\ attrib["sheet"] = "slip"

\* lines 406-410: the sheet mode
SheetMode ==
    /\ pc = "start"
    /\ \E M \in {printer_call(Cur, [op |-> IF is_slip(root.attrib)
                                             THEN "set_sheet_slip_mode"
                                             ELSE "set_sheet_roll_mode"])} :
          /\ Becomes(M)
          /\ slip_sheet_mode' = (is_slip(root.attrib) /\ M.err = "none")
          /\ pc' = IF M.err # "none" THEN "error" ELSE "root"
    /\ UNCHANGED <<printer, root, calls, budget, pushes, pops, ncut, last, ncalls>>

\* print_elem(stylestack, ser, e) from machine state M: up to the first child
\* of e, or to its return when it has no child loop
print_elem(M, e, ser) ==
    IF HasLoop(e) THEN open_elem(enter_styles(M, e), ser, e)
    ELSE pop_frame(print_leaf(enter_styles(M, e), ser, e))

\* the print_elem call on e; base is the callers' frames, R the state it leaves
CallElem(M, e, ser, base) ==
    \E R \in {print_elem(M, e, ser)} :
        /\ Becomes(R)
        /\ calls' = IF HasLoop(e) /\ R.err = "none"
                    THEN Append(base, Frame(e, ser, IF e.tag = "line" THEN Len(R.lines) ELSE 0, M))
                    ELSE base
        /\ pushes' = pushes + 1
        /\ pops' = IF ~HasLoop(e) /\ R.err = "none" THEN pops + 1 ELSE pops
        /\ ncut' = IF e.tag \in {"cut", "partialcut"} THEN ncut + 1 ELSE ncut
        /\ last' = e
        /\ budget' = budget - e.nkids
        /\ pc' = IF R.err # "none" THEN "error" ELSE "walk"
        /\ UNCHANGED <<printer, root, slip_sheet_mode, ncalls>>

\* line 412
WalkRoot ==
    /\ pc = "root"
    /\ CallElem(Cur, root, 0, calls)

\* the caller's frame once it has taken its next child
TookChild(tail) ==
    [calls EXCEPT ![Len(calls)].kids = @ - 1, ![Len(calls)].tail = tail]

\* lines 322-323 and 332-333: the next child of a block or inline element
Child ==
    /\ pc = "walk" /\ calls # <<>>
    /\ Top.elem.tag # "line" /\ ~Top.tail /\ Top.kids > 0
    /\ \E c \in Elems(budget) : CallElem(Cur, c, Top.ser, TookChild(TRUE))

\* lines 324-326 and 334-336: the tail of the child just walked
ChildTail ==
    /\ pc = "walk" /\ calls # <<>>
    /\ Top.tail
    /\ \E txt \in Tails :
          \E M \in {print_tail(Cur, Top.ser, txt)} :
              /\ Becomes(M)
              /\ pc' = IF M.err # "none" THEN "error" ELSE "walk"
    /\ calls' = [calls EXCEPT ![Len(calls)].tail = FALSE]
    /\ UNCHANGED <<printer, root, slip_sheet_mode, budget, pushes, pops, ncut, last, ncalls>>

\* lines 362-363: a left child of a line element
LineLeft ==
    /\ pc = "walk" /\ calls # <<>>
    /\ Top.elem.tag = "line" /\ Top.kids > 0
    /\ \E c \in LineKids(budget) :
          /\ c.tag = "left"
          /\ CallElem(Cur, c, Top.inner, TookChild(FALSE))

\* lines 364-366: a right child of a line element
LineRight ==
    /\ pc = "walk" /\ calls # <<>>
    /\ Top.elem.tag = "line" /\ Top.kids > 0
    /\ \E c \in LineKids(budget) :
          /\ c.tag = "right"
          /\ CallElem([Cur EXCEPT !.lines[Top.inner] = Line_start_right(@)],
                      c, Top.inner, TookChild(FALSE))

\* lines 361-366: any other child of a line element is passed over
LineOther ==
    /\ pc = "walk" /\ calls # <<>>
    /\ Top.elem.tag = "line" /\ Top.kids > 0
    /\ \E c \in LineKids(budget) :
          /\ c.tag \notin {"left", "right"}
          /\ budget' = budget - c.nkids
    /\ calls' = TookChild(FALSE)
    /\ UNCHANGED <<pc, printer, root, stylestack, stack, out, slip_sheet_mode, lines,
                   err, pushes, pops, ncut, last, ncalls>>

\* the end of a child loop, and the return of that print_elem call
Return ==
    /\ pc = "walk" /\ calls # <<>>
    /\ ~Top.tail /\ Top.kids = 0
    /\ \E M \in {close_elem(Cur, Top)} :
          /\ Becomes(M)
          /\ pc' = IF M.err # "none" THEN "error" ELSE "walk"
          /\ pops' = IF M.err # "none" THEN pops ELSE pops + 1
    /\ calls' = SubSeq(calls, 1, Len(calls) - 1)
    /\ UNCHANGED <<printer, root, slip_sheet_mode, budget, pushes, ncut, last, ncalls>>

\* mutant of wants_cut: the final cut is issued whatever the attribute says
wants_cut_always(attrib) == TRUE

\* mutant of wants_cut: only the literal "false" suppresses the final cut
wants_cut_unless_false(attrib) ==
    "cut" \notin DOMAIN attrib \/ attrib["cut"] # "false"

\* line 414
wants_cut(attrib) == "cut" \notin DOMAIN attrib \/ attrib["cut"] = "true"

\* lines 414-415: the final cut
FinalCut ==
    /\ pc = "walk" /\ calls = <<>>
    /\ \E M \in {IF wants_cut(root.attrib)
                  THEN printer_call(Cur, [op |-> "cut", mode |-> "default"])
                  ELSE Cur} :
          /\ Becomes(M)
          /\ pc' = IF M.err # "none" THEN "error" ELSE "done"
    /\ UNCHANGED <<printer, root, slip_sheet_mode, calls, budget, pushes, pops, ncut,
                   last, ncalls>>

Next ==
    \/ SheetMode
    \/ WalkRoot
    \/ Child
    \/ ChildTail
    \/ LineLeft
    \/ LineRight
    \/ LineOther
    \/ Return
    \/ FinalCut

Spec == Init /\ [][Next]_vars

----------------------------------------------------------------------------
(* SpecSer: any sequence of calls on one XmlSerializer *)

SerTexts == { <<"a">>, <<" ", "a", " ", "\n", "b", " ">>, <<" ">> }

InitSer ==
    /\ pc = "api"
    /\ printer \in Printers
    /\ root = NoElem
    /\ stylestack = <<defaults>>
    /\ stack = <<"block">>
    /\ out = <<>>
    /\ slip_sheet_mode = FALSE
    /\ lines = <<>>
    /\ calls = <<>>
    /\ err = "none"
    /\ budget = 0
    /\ pushes = 0
    /\ pops = 0
    /\ ncut = 0
    /\ last = Made(SinkCall("new", <<>>, FALSE), [stack |-> stack, out |-> out])
    /\ ncalls = 0

SerFrame == UNCHANGED <<pc, printer, root, slip_sheet_mode, calls, budget,
                        pushes, pops, ncut>>

SerStep(M, call) ==
    /\ pc = "api"
    /\ ncalls < MaxSerCalls
    /\ Becomes(M)
    /\ last' = Made(call, [stack |-> stack, out |-> out])
    /\ ncalls' = ncalls + 1
    /\ SerFrame

SerStartInline ==
    \E styled \in BOOLEAN :
        SerStep(XmlSerializer_start_inline(Cur, styled), SinkCall("start_inline", <<>>, styled))

SerStartBlock ==
    \E styled \in BOOLEAN :
        SerStep(XmlSerializer_start_block(Cur, styled), SinkCall("start_block", <<>>, styled))

SerEndEntity ==
    SerStep(XmlSerializer_end_entity(Cur), SinkCall("end_entity", <<>>, FALSE))

SerPre ==
    \E txt \in SerTexts \cup {<<>>} :
        SerStep(XmlSerializer_pre(Cur, txt), SinkCall("pre", txt, FALSE))

SerText ==
    \E txt \in SerTexts \cup {<<>>} :
        SerStep(XmlSerializer_text(Cur, txt), SinkCall("text", txt, FALSE))

SerLinebreak ==
    SerStep(XmlSerializer_linebreak(Cur), SinkCall("linebreak", <<>>, FALSE))

SerStyle ==
    SerStep(XmlSerializer_style(Cur), SinkCall("style", <<>>, TRUE))

NextSer ==
    \/ SerStartInline
    \/ SerStartBlock
    \/ SerEndEntity
    \/ SerPre
    \/ SerText
    \/ SerLinebreak
    \/ SerStyle

SpecSer == InitSer /\ [][NextSer]_vars

----------------------------------------------------------------------------
(* SpecLine: any sequence of calls on one XmlLineSerializer *)

LineTexts == { <<"A", "B">>, <<" ", "Z", " ">>, <<"a", "b", "c", "d", "e", "f">> }

LineIndents == {0, 1}

LineTabwidths == {2}

LineWidths == {1, 6, 10}

LineRatios == { Float(-1, 2), Float(0, 1), Float(1, 2), Float(1, 1), Float(3, 2) }

\* The constructor's arguments, kept beside the object they built
LineArgs(indent, tabwidth, width, ratio) ==
    [indent |-> indent, tabwidth |-> tabwidth, width |-> width, ratio |-> ratio]

InitLine ==
    /\ pc = "api"
    /\ printer \in Printers
    /\ \E i \in LineIndents, t \in LineTabwidths, w \in LineWidths, r \in LineRatios :
          /\ root = LineArgs(i, t, w, r)
          /\ lines = <<XmlLineSerializer_init(i, t, w, r)>>
    /\ stylestack = <<defaults>>
    /\ stack = <<"block">>
    /\ out = <<>>
    /\ slip_sheet_mode = FALSE
    /\ calls = <<>>
    /\ err = "none"
    /\ budget = 0
    /\ pushes = 0
    /\ pops = 0
    /\ ncut = 0
    /\ last = Made(SinkCall("new", <<>>, FALSE), lines[1])
    /\ ncalls = 0

LineStep(L, call) ==
    /\ pc = "api"
    /\ ncalls < MaxLineCalls
    /\ lines' = <<L>>
    /\ last' = Made(call, lines[1])
    /\ ncalls' = ncalls + 1
    /\ UNCHANGED <<pc, printer, root, stylestack, stack, out, slip_sheet_mode,
                   calls, err, budget, pushes, pops, ncut>>

LineStartInline ==
    LineStep(Line_start_inline(lines[1]), SinkCall("start_inline", <<>>, FALSE))

LineStartBlock ==
    LineStep(Line_start_block(lines[1]), SinkCall("start_block", <<>>, FALSE))

LineEndEntity ==
    LineStep(Line_end_entity(lines[1]), SinkCall("end_entity", <<>>, FALSE))

LinePre ==
    \E txt \in LineTexts \cup {<<>>} :
        LineStep(Line_pre(lines[1], txt), SinkCall("pre", txt, FALSE))

LineText ==
    \E txt \in LineTexts \cup {<<>>} :
        LineStep(Line_text(lines[1], txt), SinkCall("text", txt, FALSE))

LineLinebreak ==
    LineStep(Line_linebreak(lines[1]), SinkCall("linebreak", <<>>, FALSE))

LineStyle ==
    LineStep(Line_style(lines[1]), SinkCall("style", <<>>, FALSE))

LineStartRight ==
    LineStep(Line_start_right(lines[1]), SinkCall("start_right", <<>>, FALSE))

NextLine ==
    \/ LineStartInline
    \/ LineStartBlock
    \/ LineEndEntity
    \/ LinePre
    \/ LineText
    \/ LineLinebreak
    \/ LineStyle
    \/ LineStartRight

SpecLine == InitLine /\ [][NextLine]_vars

----------------------------------------------------------------------------
(* SpecFmt: one call of format_value, with any of its keyword arguments given *)

\* mutant of format_value_defaults: decimals defaults to the style default, 2
format_value_defaults_two_decimals ==
    ( "decimals" :> 2 @@ "width" :> 0 @@ "decimals_separator" :> "."
   @@ "thousands_separator" :> "," @@ "autoint" :> FALSE @@ "symbol" :> ""
   @@ "position" :> "after" )

\* lines 259-260: the defaults of the parameters of format_value
format_value_defaults ==
    ( "decimals" :> 3 @@ "width" :> 0 @@ "decimals_separator" :> "."
   @@ "thousands_separator" :> "," @@ "autoint" :> FALSE @@ "symbol" :> ""
   @@ "position" :> "after" )

\* the value a parameter takes in a call with keyword arguments kwargs
param(kwargs, name) ==
    IF name \in DOMAIN kwargs THEN kwargs[name] ELSE format_value_defaults[name]

\* format_value(value, **kwargs)
format_value_call(value, kwargs) ==
    format_value(value, param(kwargs, "decimals"), param(kwargs, "width"),
                 param(kwargs, "decimals_separator"), param(kwargs, "thousands_separator"),
                 param(kwargs, "autoint"), param(kwargs, "symbol"), param(kwargs, "position"))

FmtValues ==
    { <<"5">>, <<"0">>, <<"1", "2", "3", "4", ".", "5">>,
      <<"-", "1", "2", "3", "4", ".", "1", "2", "5">>,
      <<"1", "2", "3", "4", "5", "6", "7">>, <<"0", ".", "5">>, <<"x">> }

NoKwargs == <<>>

FmtDecimals == { NoKwargs } \cup { "decimals" :> d : d \in 0..3 }

FmtWidths == { NoKwargs, "width" :> 10 }

FmtSeparators ==
    { NoKwargs,
      "thousands_separator" :> "," @@ "decimals_separator" :> ".",
      "thousands_separator" :> "." @@ "decimals_separator" :> ",",
      "thousands_separator" :> "" @@ "decimals_separator" :> ",",
      "thousands_separator" :> " " }

FmtAutoint == { NoKwargs, "autoint" :> TRUE }

FmtSymbols ==
    { NoKwargs, "symbol" :> "$", "symbol" :> "$" @@ "position" :> "before" }

FmtKwargs ==
    { d @@ w @@ sp @@ a @@ sy :
        d \in FmtDecimals, w \in FmtWidths, sp \in FmtSeparators,
        a \in FmtAutoint, sy \in FmtSymbols }

FmtArgs(value, kwargs) == [value |-> value, kwargs |-> kwargs]

NoResult == [op |-> "new", ret |-> <<>>]

InitFmt ==
    /\ pc = "fmt"
    /\ printer \in Printers
    /\ \E v \in FmtValues, kw \in FmtKwargs : root = FmtArgs(v, kw)
    /\ stylestack = <<defaults>>
    /\ stack = <<"block">>
    /\ out = <<>>
    /\ slip_sheet_mode = FALSE
    /\ lines = <<>>
    /\ calls = <<>>
    /\ err = "none"
    /\ budget = 0
    /\ pushes = 0
    /\ pops = 0
    /\ ncut = 0
    /\ last = NoResult
    /\ ncalls = 0

\* the call returns its string, or float(value) raises ValueError
FormatValue ==
    /\ pc = "fmt"
    /\ IF float_ok(root.value)
       THEN /\ last' = [op |-> "format_value", ret |-> format_value_call(root.value, root.kwargs)]
            /\ pc' = "done"
            /\ err' = err
       ELSE /\ last' = last
            /\ pc' = "error"
            /\ err' = "ValueError"
    /\ ncalls' = ncalls + 1
    /\ UNCHANGED <<printer, root, stylestack, stack, out, slip_sheet_mode, lines,
                   calls, budget, pushes, pops, ncut>>

NextFmt == FormatValue

SpecFmt == InitFmt /\ [][NextFmt]_vars

----------------------------------------------------------------------------
(* SpecLineUse: an XmlLineSerializer under any sequence of calls, and under *)
(* the calls print_elem makes on the ones it builds                         *)

InitLineUse == InitLine \/ Init

NextLineUse == NextLine \/ Next

SpecLineUse == InitLineUse /\ [][NextLineUse]_vars

----------------------------------------------------------------------------
(* Claims about receipt() and print_elem, checked under Spec *)

\* the cut calls among the printer calls o
NumCuts(o) == Cardinality({i \in 1..Len(o) : o[i].op = "cut"})

IsFinalCut(call) == call.op = "cut" /\ call.mode = "default"

Running == pc \in {"start", "root", "walk", "done"}

\* C1: in a walk that no exception has ended, print_elem has pushed exactly
\* one more frame than it has popped for each call still active, so the stack
\* depth after an element returns is the depth before it and a finished walk
\* has as many pushes as pops; the stack always keeps its root frame.
C1_StackBalance ==
    /\ Len(stylestack) >= 1
    /\ Running => /\ pushes = pops + Len(calls)
                  /\ Len(stylestack) = 1 + Len(calls)
    /\ pc = "done" => pushes = pops /\ Len(stylestack) = 1

C1_Witness == pc = "done" /\ pushes >= 3 /\ pushes = pops

\* C2: in a render of a document without cut or partialcut elements, no cut
\* is issued while the tree is walked; at the end cut="false" leaves zero cut
\* calls, and a root without the cut attribute leaves exactly one, the last
\* printer call.
C2_CutSuppression ==
    ncut = 0 =>
        /\ pc \in {"start", "root", "walk"} => NumCuts(out) = 0
        /\ (pc = "done" /\ "cut" \in DOMAIN root.attrib /\ root.attrib["cut"] = "false")
              => NumCuts(out) = 0
        /\ (pc = "done" /\ "cut" \notin DOMAIN root.attrib)
              => /\ NumCuts(out) = 1
                 /\ IsFinalCut(out[Len(out)])

C2_Witness ==
    /\ pc = "done" /\ ncut = 0 /\ pushes >= 3
    /\ "cut" \notin DOMAIN root.attrib
    /\ NumCuts(out) = 1

\* C3, as claimed: every value of the root cut attribute other than "false"
\* is followed by the final cut.
C3_AnyValueButFalseCuts ==
    (pc = "done" /\ "cut" \in DOMAIN root.attrib /\ root.attrib["cut"] # "false")
        => /\ NumCuts(out) = ncut + 1
           /\ IsFinalCut(out[Len(out)])

\* C3, amended: the final cut is issued exactly when the root cut attribute
\* is absent or is the literal "true"; any other value suppresses it.
C3_OnlyTrueOrAbsentCuts ==
    pc = "done" =>
        IF "cut" \notin DOMAIN root.attrib \/ root.attrib["cut"] \in {"true"}
        THEN NumCuts(out) = ncut + 1 /\ IsFinalCut(out[Len(out)])
        ELSE NumCuts(out) = ncut

C3_Witness ==
    /\ pc = "done" /\ pushes >= 2
    /\ "cut" \in DOMAIN root.attrib /\ root.attrib["cut"] = "yes"
    /\ NumCuts(out) = 0

IsSheetCall(call) == call.op \in {"set_sheet_slip_mode", "set_sheet_roll_mode"}

\* C10: the first printer call of a render is the sheet-mode call, slip mode
\* when the root's sheet attribute is "slip" and roll mode otherwise, nothing
\* is sent before it and no other sheet-mode call follows.
C10_SheetModeOnceAndFirst ==
    /\ pc = "start" => out = <<>>
    /\ pc # "start" =>
          /\ Len(out) >= 1
          /\ out[1].op = IF "sheet" \in DOMAIN root.attrib /\ root.attrib["sheet"] = "slip"
                         THEN "set_sheet_slip_mode" ELSE "set_sheet_roll_mode"
          /\ \A i \in 2..Len(out) : ~IsSheetCall(out[i])

C10_Witness ==
    /\ pc = "done" /\ Len(out) >= 4
    /\ "sheet" \in DOMAIN root.attrib /\ root.attrib["sheet"] = "roll"
    /\ out[1].op = "set_sheet_roll_mode"

\* the tags print_elem has a branch for
KnownTags ==
    BlockTags \cup InlineTags \cup
        {"value", "line", "pre", "hr", "br", "img", "barcode", "cut", "partialcut", "cashdraw"}

\* C7: a print_elem call on an element whose tag has no branch sends nothing
\* to the printer, changes neither sink nor the style stack, and opens no
\* child loop, so none of the children the element has is ever walked.
C7_UnknownTagIgnored ==
    [][ (pushes' = pushes + 1 /\ last'.tag \notin KnownTags /\ err' = "none")
            => /\ out' = out
               /\ stack' = stack
               /\ lines' = lines
               /\ stylestack' = stylestack
               /\ Len(calls') = Len(calls)
               /\ pops' = pops + 1 ]_vars

C7_Witness ==
    /\ pc = "done"
    /\ last.tag = "foo" /\ last.nkids > 0

\* the element sets the style itself: by an attribute or by its tag's styles
sets_style(e, k) ==
    \/ k \in DOMAIN e.attrib
    \/ e.tag \in DOMAIN elem_styles /\ k \in DOMAIN elem_styles[e.tag]

\* the value the element gives the style (attributes win over the tag's styles)
own_style(e, k) ==
    IF k \in DOMAIN e.attrib THEN enforce_type(k, e.attrib[k])
    ELSE elem_styles[e.tag][k]

\* the value of the nearest of the active elements 1..i that sets the style
RECURSIVE inherited(_, _)
inherited(i, k) ==
    IF i < 1 THEN defaults[k]
    ELSE IF sets_style(calls[i].elem, k) THEN own_style(calls[i].elem, k)
    ELSE inherited(i - 1, k)

\* C8: while an element is walked, a style it does not set itself resolves to
\* the value of its nearest ancestor that sets it, and to the default of the
\* root frame when no ancestor does.
C8_Inheritance ==
    (pc = "walk" /\ calls # <<>>) =>
        \A k \in DOMAIN defaults :
            ~sets_style(Top.elem, k) =>
                StyleStack_get(stylestack, k) = inherited(Len(calls) - 1, k)

C8_Witness ==
    /\ pc = "walk" /\ Len(calls) = 3
    /\ sets_style(calls[1].elem, "width")
    /\ ~sets_style(calls[2].elem, "width") /\ ~sets_style(calls[3].elem, "width")
    /\ StyleStack_get(stylestack, "width") = 6
    /\ StyleStack_get(stylestack, "tabwidth") = 2

\* C9, as claimed: a render against DefaultXMLPrinter is never ended by a
\* printer call the object does not accept.
C9_DefaultPrinterAcceptsAll ==
    printer = "DefaultXMLPrinter" => err \notin {"AttributeError", "TypeError"}

\* every active print_elem call finds below the frames pushed since it was
\* made the style stack it was called with
EntryStacksKept ==
    \A k \in 1..Len(calls) :
        /\ Len(stylestack) > Len(calls[k].before)
        /\ SubSeq(stylestack, 1, Len(calls[k].before)) = calls[k].before

\* C13: a print_elem call that returns leaves the style stack, and so the
\* value every style resolves to, as the call found it, whether the element
\* has a child loop or not, and while a call is active the frames it was
\* called with are not modified: an element's attributes and tag defaults
\* reach neither its later siblings nor its parent's tail text.
C13_StylesRestored ==
    [][ /\ (Len(calls') < Len(calls) /\ err' = "none")
            => /\ stylestack' = Top.before
               /\ \A k \in DOMAIN defaults :
                     StyleStack_get(stylestack', k) = StyleStack_get(Top.before, k)
        /\ (pushes' = pushes + 1 /\ pops' = pops + 1)
            => /\ stylestack' = stylestack
               /\ \A k \in DOMAIN defaults :
                     StyleStack_get(stylestack', k) = StyleStack_get(stylestack, k)
        /\ err' = "none" => EntryStacksKept'
      ]_vars

\* a span with bold="on" and a width has returned to the root, where bold
\* resolves to the default again
C13_Witness ==
    /\ pc = "walk" /\ Len(calls) = 1 /\ pushes = pops + 1
    /\ last.tag = "span"
    /\ root.tag = "receipt" /\ "width" \notin DOMAIN root.attrib
    /\ StyleStack_get(stylestack, "bold") = "off"
    /\ StyleStack_get(stylestack, "width") = 48

\* the line terminators among the printer calls o
NumNewlines(o) == Cardinality({i \in 1..Len(o) : o[i] = Newline})

\* the serializer the next print_elem call is made with
NextSerializer ==
    IF calls = <<>> THEN 0
    ELSE IF Top.elem.tag = "line" THEN Top.inner
    ELSE Top.ser

\* an element without a child loop that is a block entity or a br
IsBlockLeaf(e) ==
    \/ e.tag \in {"pre", "hr", "br"}
    \/ e.tag = "barcode" /\ "encoding" \in DOMAIN e.attrib

\* C14: each step of a render adds to the line terminators sent to the
\* printer exactly: one when a block tag or a line element walked on the
\* direct sink returns, one when a pre, hr, br or barcode with an encoding is
\* walked on the direct sink, and none otherwise (inline elements, tail
\* texts, the final cut, and every element walked on a line composer).
C14_TerminatorsCountBlocks ==
    [][ err' = "none" =>
          NumNewlines(out') - NumNewlines(out) =
             IF Len(calls') < Len(calls)
             THEN IF Top.ser = 0 /\ Top.elem.tag \in BlockTags \cup {"line"} THEN 1 ELSE 0
             ELSE IF pushes' = pushes + 1 /\ pops' = pops + 1
             THEN IF NextSerializer = 0 /\ IsBlockLeaf(last') THEN 1 ELSE 0
             ELSE 0
      ]_vars

\* a line with a left and a right child was rendered: one line terminator
C14_Witness ==
    /\ pc = "done" /\ root.tag = "line" /\ root.nkids = 2 /\ pushes = 3
    /\ NumNewlines(out) = 1

\* the printer calls among o with operation op
NumOps(o, op) == Cardinality({i \in 1..Len(o) : o[i].op = op})

\* a step that walks a cut, partialcut or cashdraw element to its return
WalksOneShot ==
    /\ pushes' = pushes + 1
    /\ last'.tag \in {"cut", "partialcut", "cashdraw"}
    /\ err' = "none"

\* such a step sends no text and no style and leaves the style stack alone
NoFrameEffect ==
    /\ NumOps(out', "text") = NumOps(out, "text")
    /\ NumOps(out', "apply_style") = NumOps(out, "apply_style")
    /\ stylestack' = stylestack
    /\ stack' = stack
    /\ lines' = lines
    /\ pops' = pops + 1

OneShotCalls(tag) ==
    IF tag = "cut" THEN << [op |-> "cut", mode |-> "default"] >>
    ELSE IF tag = "partialcut" THEN << [op |-> "cut", mode |-> "part"] >>
    ELSE << [op |-> "cashdraw", pin |-> 2], [op |-> "cashdraw", pin |-> 5] >>

C17_CoercionFailureAborts ==
    [][ /\ (pushes' = pushes + 1 /\ set_fails(last'.attrib))
            => /\ err' = "ValueError" /\ pc' = "error"
               /\ out' = out /\ stack' = stack /\ lines' = lines
               /\ pops' = pops
        /\ pc # "error"
      ]_vars

C17_Witness ==
    /\ pc = "error" /\ err = "ValueError"
    /\ last.tag = "p" /\ "width" \in DOMAIN last.attrib /\ last.attrib["width"] = "x"
    /\ pushes = 3 /\ Len(out) >= 2
    /\ NumCuts(out) = 0

\* the index of the last apply_style call before call i of o, 0 when none
LastStyle(o, i) ==
    IF \E j \in 1..(i - 1) : o[j].op = "apply_style"
    THEN CHOOSE j \in 1..(i - 1) :
            /\ o[j].op = "apply_style"
            /\ \A m \in (j + 1)..(i - 1) : o[m].op # "apply_style"
    ELSE 0

\* the printer styles in effect for element e walked on style stack stk
Effective(e, stk) ==
    [k \in escpos_keys |->
        IF sets_style(e, k) THEN own_style(e, k) ELSE StyleStack_get(stk, k)]

IsContent(call) == call.op = "text" /\ call # Newline

\* C19: each content text a step sends to the printer follows an apply_style
\* call, with no other apply_style call between the two, that carried the
\* styles in effect for the owner of the text: the element walked, for its
\* text, value, pre content or rule, with the call made in the same step; the
\* parent, for the tail of a child, likewise; and the line element, for its
\* composed line, with the call the one made when the line was opened.
C19_TextUnderOwnersStyle ==
    [][ \A i \in (Len(out) + 1)..Len(out') :
          IsContent(out'[i]) =>
              /\ LastStyle(out', i) > 0
              /\ IF pushes' = pushes + 1
                 THEN /\ LastStyle(out', i) > Len(out)
                      /\ out'[LastStyle(out', i)].styles = Effective(last', stylestack)
                 ELSE IF Len(calls') < Len(calls)
                 THEN /\ Top.elem.tag = "line"
                      /\ LastStyle(out', i) = Top.sent + 1
                      /\ out'[LastStyle(out', i)].styles = get_styles(stylestack)
                      /\ get_styles(stylestack) = Effective(Top.elem, Top.before)
                 ELSE /\ LastStyle(out', i) > Len(out)
                      /\ out'[LastStyle(out', i)].styles = get_styles(stylestack)
                      /\ get_styles(stylestack) = Effective(Top.elem, Top.before)
      ]_vars

\* the tail "t" of a span with bold="on" was sent under the parent's style
C19_Witness ==
    /\ pc = "walk" /\ last.tag = "span" /\ Len(calls) = 1 /\ Len(out) >= 4
    /\ out[Len(out)] = TextCall(<<"t">>)
    /\ out[Len(out) - 1].op = "apply_style"
    /\ out[Len(out) - 1].styles["bold"] = "off"

\* C20: while a line element walked on the direct sink is open, the printer
\* has received nothing since the apply_style call that opened it, whatever
\* is nested under its left and right children.
C20_LineIsolatedFromPrinter ==
    \A k \in 1..Len(calls) :
        (calls[k].elem.tag = "line" /\ calls[k].ser = 0)
            => /\ Len(out) = calls[k].sent + 1
               /\ out[Len(out)].op = "apply_style"

----------------------------------------------------------------------------
(* Claims about XmlSerializer, checked under SpecSer *)

\* C4: an end_entity that closes an entity opened by start_block sends
\* exactly one line terminator to the printer, and one that closes an entity
\* opened by start_inline sends nothing; either way the entity is closed.
C4_BlockNewline ==
    (pc = "api" /\ last.op = "end_entity" /\ Len(last.before.stack) > 1) =>
        /\ stack = SubSeq(last.before.stack, 1, Len(last.before.stack) - 1)
        /\ last.before.stack[Len(last.before.stack)] = "block"
              => out = Append(last.before.out, Newline)
        /\ last.before.stack[Len(last.before.stack)] = "inline"
              => out = last.before.out

C4_Witness ==
    /\ pc = "api" /\ last.op = "end_entity"
    /\ last.before.stack = <<"block", "inline", "block">>
    /\ out = Append(last.before.out, Newline)

\* C18: under any sequence of calls the mode stack of the XmlSerializer has
\* at least one entry and its bottom entry is "block"; an end_entity called
\* when only that entry is left leaves the mode stack as it was.
C18_ModeStackKeepsRoot ==
    pc = "api" =>
        /\ Len(stack) >= 1
        /\ stack[1] = "block"
        /\ (last.op = "end_entity" /\ Len(last.before.stack) = 1)
              => stack = last.before.stack

C18_Witness ==
    /\ pc = "api" /\ ncalls >= 3
    /\ last.op = "end_entity" /\ last.before.stack = <<"block">>
    /\ stack = <<"block">>

----------------------------------------------------------------------------
(* Claims about XmlLineSerializer, checked under SpecLine *)

\* the buffer writes go to, and the width of its column
ActiveBuffer(L) == IF L.left THEN L.lbuffer ELSE L.rbuffer

ActiveWidth(L) == IF L.left THEN L.lwidth ELSE L.rwidth

\* the text a call hands to the active column
Written(call) ==
    IF call.op = "pre" THEN call.txt
    ELSE IF call.op = "text" THEN strclean(call.txt)
    ELSE IF call.op \in {"start_inline", "start_block"} /\ ActiveBuffer(call.before) # <<>>
         THEN <<" ">>
    ELSE <<>>

\* a write keeps the prefix that fits the room left in the active column,
\* nothing when the column is full, and leaves the other column alone
WriteLaw(L) ==
    last.op \in {"pre", "text", "start_inline", "start_block"} =>
        /\ ActiveBuffer(L) =
              Take(ActiveBuffer(last.before) \o Written(last),
                   Max(Len(ActiveBuffer(last.before)), ActiveWidth(L)))
        /\ L.left = last.before.left
        /\ L.left => L.rbuffer = last.before.rbuffer
        /\ ~L.left => L.lbuffer = last.before.lbuffer

\* writing "abcdef" into an empty 3-character column yields "abc"
WriteExample(L) ==
    ( /\ last.op \in {"pre", "text"}
      /\ last.txt = <<"a", "b", "c", "d", "e", "f">>
      /\ ActiveWidth(last.before) = 3
      /\ ActiveBuffer(last.before) = <<>> )
        => ActiveBuffer(L) = <<"a", "b", "c">>

UsedWidths(L) ==
    /\ L.clwidth = Len(L.lbuffer)
    /\ L.crwidth = Len(L.rbuffer)

\* C5, as claimed: the left buffer holds at most left-column-width characters
\* and the right buffer at most right-column-width characters, the used widths
\* are the buffer lengths, and a write keeps only the prefix that fits.
C5_WithinColumnWidths ==
    pc = "api" =>
        /\ Len(lines[1].lbuffer) <= lines[1].lwidth
        /\ Len(lines[1].rbuffer) <= lines[1].rwidth
        /\ UsedWidths(lines[1])
        /\ WriteLaw(lines[1])
        /\ WriteExample(lines[1])

\* C5, amended: the left buffer holds at most max(0, left-column-width)
\* characters (a negative split ratio makes the left-column width negative,
\* and the left buffer then stays empty); the rest as claimed.
C5_WithinColumnCapacity ==
    pc = "api" =>
        /\ Len(lines[1].lbuffer) <= Max(0, lines[1].lwidth)
        /\ Len(lines[1].rbuffer) <= lines[1].rwidth
        /\ UsedWidths(lines[1])
        /\ WriteLaw(lines[1])
        /\ WriteExample(lines[1])

C5_Witness ==
    /\ pc = "api" /\ last.op = "pre"
    /\ last.txt = <<"a", "b", "c", "d", "e", "f">>
    /\ last.before.lwidth = 3 /\ last.before.left /\ last.before.lbuffer = <<>>
    /\ lines[1].lbuffer = <<"a", "b", "c">>

AllSpaces(txt) == \A i \in 1..Len(txt) : txt[i] = " "

\* the constructor arguments C6 is about
C6_Args(a) ==
    /\ a.indent >= 0 /\ a.tabwidth >= 0 /\ a.width >= 0
    /\ a.indent * a.tabwidth <= a.width
    /\ a.ratio.num >= 0 /\ a.ratio.num <= a.ratio.den

\* g is ind spaces, then all of lb, then spaces, then all of rb, n characters in all
Composed(g, n, ind, lb, rb) ==
    /\ Len(g) = n
    /\ ind + Len(lb) + Len(rb) <= n
    /\ AllSpaces(SubSeq(g, 1, ind))
    /\ SubSeq(g, ind + 1, ind + Len(lb)) = lb
    /\ AllSpaces(SubSeq(g, ind + Len(lb) + 1, n - Len(rb)))
    /\ SubSeq(g, n - Len(rb) + 1, n) = rb

\* C6: for a line composer built with non-negative indent, tab width and
\* total width, indent*tab_width <= total_width and a split ratio in [0, 1],
\* get_line is total_width characters long: indent*tab_width spaces, the whole
\* left buffer, padding, and the whole right buffer at the end; width 10,
\* ratio 0.5, left "AB" and right "Z" give "AB", seven spaces, "Z".
C6_LineComposition ==
    (pc = "api" /\ C6_Args(root)) =>
        /\ Composed(Line_get_line(lines[1]), root.width, root.indent * root.tabwidth,
                    lines[1].lbuffer, lines[1].rbuffer)
        /\ ( /\ root = LineArgs(0, 2, 10, Float(1, 2))
             /\ lines[1].lbuffer = <<"A", "B">>
             /\ lines[1].rbuffer = <<"Z">> )
              => Line_get_line(lines[1]) =
                    <<"A", "B", " ", " ", " ", " ", " ", " ", " ", "Z">>

C6_Witness ==
    /\ pc = "api"
    /\ root = LineArgs(0, 2, 10, Float(1, 2))
    /\ lines[1].lbuffer = <<"A", "B">>
    /\ lines[1].rbuffer = <<"Z">>

----------------------------------------------------------------------------
(* Claims about format_value, checked under SpecFmt *)

Count(txt, c) == Cardinality({i \in 1..Len(txt) : txt[i] = c})

\* the calls C11 is about: both separators given, one "," and the other "."
SeparatorsGiven(kwargs) ==
    /\ {"thousands_separator", "decimals_separator"} \subseteq DOMAIN kwargs
    /\ {kwargs["thousands_separator"], kwargs["decimals_separator"]} = {",", "."}
    /\ DOMAIN kwargs \subseteq {"thousands_separator", "decimals_separator", "decimals", "width"}

\* the part of ret before its last dec + 1 characters (all of it when dec = 0)
IntPart(ret, dec) == IF dec > 0 THEN SubSeq(ret, 1, Len(ret) - dec - 1) ELSE ret

\* ret is a number with dec fraction digits after one mark ds, and an integer
\* part of digits grouped by threes with the mark ts
Separated(ret, dec, ts, ds) ==
    /\ \A i \in 1..Len(ret) : IsDigit(ret[i]) \/ ret[i] \in {ts, ds, " ", "-"}
    /\ Count(ret, ds) = (IF dec > 0 THEN 1 ELSE 0)
    /\ dec > 0 => ret[Len(ret) - dec] = ds
    /\ Count(ret, ts) = (Len(IntPart(ret, dec)) - Count(IntPart(ret, dec), " ")
                            - Count(IntPart(ret, dec), "-") - 1) \div 4
    /\ \A i \in 1..Len(IntPart(ret, dec)) :
          IntPart(ret, dec)[i] = ts =>
              /\ (Len(IntPart(ret, dec)) - i) % 4 = 3
              /\ i > 1 /\ IsDigit(IntPart(ret, dec)[i - 1])

\* C11: with the thousands and decimal separators "," and "." in either
\* assignment, every grouping mark of the result is the caller's thousands
\* separator and its one decimal mark is the caller's decimal separator;
\* 1234.5 with two decimals is "1,234.50", and "1.234,50" with them swapped.
C11_SeparatorsDoNotCollide ==
    (pc = "done" /\ SeparatorsGiven(root.kwargs)) =>
        /\ Separated(last.ret, param(root.kwargs, "decimals"),
                     root.kwargs["thousands_separator"], root.kwargs["decimals_separator"])
        /\ ( /\ root.value = <<"1", "2", "3", "4", ".", "5">>
             /\ root.kwargs = ("decimals" :> 2 @@ "thousands_separator" :> ","
                                  @@ "decimals_separator" :> ".") )
              => last.ret = <<"1", ",", "2", "3", "4", ".", "5", "0">>
        /\ ( /\ root.value = <<"1", "2", "3", "4", ".", "5">>
             /\ root.kwargs = ("decimals" :> 2 @@ "thousands_separator" :> "."
                                  @@ "decimals_separator" :> ",") )
              => last.ret = <<"1", ".", "2", "3", "4", ",", "5", "0">>

C11_Witness ==
    /\ pc = "done"
    /\ root = FmtArgs(<<"1", "2", "3", "4", ".", "5">>,
                      "decimals" :> 2 @@ "thousands_separator" :> "."
                          @@ "decimals_separator" :> ",")
    /\ last.ret = <<"1", ".", "2", "3", "4", ",", "5", "0">>

\* the call format_value(5, symbol="$", position="before")
DollarFive == FmtArgs(<<"5">>, "symbol" :> "$" @@ "position" :> "before")

\* C12, as claimed: format_value(5, symbol="$", position="before"), with
\* decimals left to the formatter's default, returns "$5.00".
C12_DollarFiveTwoDecimals ==
    (pc = "done" /\ root = DollarFive) => last.ret = <<"$", "5", ".", "0", "0">>

\* C12, amended: that call returns "$5.000", the symbol prepended and three
\* fractional digits (the formatter's default for decimals is 3); "$5.00" is
\* what the call returns when decimals=2 is given.
C12_DollarFiveThreeDecimals ==
    /\ (pc = "done" /\ root = DollarFive)
          => last.ret = <<"$", "5", ".", "0", "0", "0">>
    /\ (pc = "done" /\ root = FmtArgs(<<"5">>, DollarFive.kwargs @@ "decimals" :> 2))
          => last.ret = <<"$", "5", ".", "0", "0">>

C12_Witness ==
    /\ pc = "done" /\ root = DollarFive
    /\ last.ret = <<"$", "5", ".", "0", "0", "0">>

----------------------------------------------------------------------------
(* Claims about the use of XmlLineSerializer, checked under SpecLineUse *)

\* what a write of txt leaves in a right buffer L.rbuffer
RightAfter(L, txt) == Take(L.rbuffer \o txt, Max(Len(L.rbuffer), L.rwidth))

\* C15: once start_right was called on a line composer, no call changes its
\* left buffer or the width used there or switches back, a further
\* start_right changes nothing at all, and every write goes to the right
\* buffer; in print_elem, the text of a left child that comes after a right
\* child of the same line is appended to the right column.
C15_StartRightOneWay ==
    [][ /\ \A k \in 1..Min(Len(lines), Len(lines')) :
              ~lines[k].left =>
                  /\ lines'[k].lbuffer = lines[k].lbuffer
                  /\ lines'[k].clwidth = lines[k].clwidth
                  /\ ~lines'[k].left
        /\ (pc = "api" /\ ~lines[1].left) =>
              /\ last'.op = "start_right" => lines' = lines
              /\ lines'[1].rbuffer = RightAfter(lines[1], Written(last'))
        /\ ( /\ pc = "walk" /\ calls # <<>> /\ Top.elem.tag = "line"
             /\ pushes' = pushes + 1 /\ last'.tag = "left" /\ err' = "none"
             /\ ~lines[Top.inner].left )
              => lines'[Top.inner].rbuffer =
                    RightAfter(lines[Top.inner],
                               (IF lines[Top.inner].rbuffer # <<>> THEN <<" ">> ELSE <<>>)
                                   \o strclean(last'.text))
      ]_vars

\* a line whose right child "Z" came before its left child "AB"
C15_Witness ==
    /\ pc \in {"walk", "done"} /\ root.tag = "line" /\ last.tag = "left"
    /\ Len(lines) >= 1
    /\ ~lines[1].left
    /\ lines[1].lbuffer = <<>>
    /\ lines[1].rbuffer = <<"Z", " ", "A", "B">>

====
